---- MODULE Spec2Model ----
(***************************************************************************)
(* COVID-19-notice (src/main.py): four jobs (today_total, now_total,       *)
(* total_history, prediction) that fetch a payload, compare it with a      *)
(* cached JSON file, and on a change render a chart, post a notification   *)
(* and rewrite the cache; and the scheduler loop of main that runs them.   *)
(*                                                                         *)
(* Two specifications:                                                     *)
(*   Spec      the four handlers invoked in any order, on any day, with    *)
(*             every outcome of get_requests and post_line and with the    *)
(*             process killed between post_line and json_write;            *)
(*   SpecMain  the loop of main: schedule.run_pending() / time.sleep(1).   *)
(***************************************************************************)
EXTENDS Integers, Sequences, FiniteSets, TLC

VARIABLES
    disk,       \* the saves directory: one field per cache file
    clock,      \* wall clock, in time units
    run,        \* what the most recent job invocation did (history)
    sent,       \* job name -> notifications the LINE channel received from it
    stamp,      \* calendar day on which day_before.json was last written, or -1
    pc,         \* main: "run_pending" | "jobs" | "sleep" | "dead"
    next_run,   \* schedule: job name -> time it is next due
    pending,    \* jobs run_pending still has to run in this pass
    ran         \* jobs run_pending has run in this pass, in order, each
                \* with the time it was due

vars == <<disk, clock, run, sent, stamp, pc, next_run, pending, ran>>

(***************************************************************************)
(* Bounds of the model.                                                    *)
(***************************************************************************)
\* job invocations explored by Spec
MaxRuns == 3
\* calendar days explored by Spec
MaxDays == 3
\* clock value up to which SpecMain lets the loop sleep
MaxClock == 6

(***************************************************************************)
(* Time scale.  One time unit is half of the loop's sleep interval, so     *)
(* that a job's due time can fall between two polls; the hour and the day  *)
(* are scaled down to a few units.                                         *)
(***************************************************************************)
\* time.sleep(1)
SleepLen == 2
\* schedule.every(1).hours
HourLen == 3
\* schedule.every().day.at('00:00')
DayLen == 4
\* days in a month: the range of strftime('%d')
DaysPerMonth == 2

(***************************************************************************)
(* JSON values and files.  Python's None and "no file" are the empty       *)
(* tuple; a present value is a one-element tuple.                          *)
(***************************************************************************)
None == <<>>
Some(x) == <<x>>

\* os.path.isfile(path)
isfile(f) == f # None
\* json_read(path): the value last written to the file
json_read(f) == f[1]
\* json_write(data, path): the file is replaced by data
json_write(d, path, data) == [d EXCEPT ![path] = Some(data)]

\* the saves directory right after os.makedirs
EmptyDisk ==
    [save |-> None, daily |-> None, day_before |-> None,
     history |-> None, history_prodiction |-> None]

(***************************************************************************)
(* Payloads the remote API returns (bounded samples).                      *)
(***************************************************************************)
Dates == {20200401, 20200402}
Positives == {100, 130}
\* /api/v1/total
TodayBodies == {[date |-> d, positive |-> p] : d \in Dates, p \in Positives}

\* a "cases" field is an integer or a string of decimal digits
IntCase(k) == [t |-> "int", n |-> k, s |-> <<>>]
StrCase(digits) == [t |-> "str", n |-> 0, s |-> digits]
Region(c) == [cases |-> c]
\* /api/v1/prefectures
NowBodies ==
    { <<>>,
      <<Region(IntCase(80))>>,
      <<Region(StrCase(<<5, 0>>)), Region(StrCase(<<5, 0>>))>>,
      <<Region(IntCase(100)), Region(StrCase(<<3, 0>>))>> }

\* /api/v1/total?history=true and ?predict=true
HistoryBodies ==
    { <<>>,
      <<[date |-> 20200401, positive |-> 100], [date |-> 20200402, positive |-> 100]>>,
      <<[date |-> 20200401, positive |-> 100], [date |-> 20200402, positive |-> 130]>> }

JobNames == {"today_total", "total_history", "prediction", "now_total"}

Bodies(job) ==
    CASE job = "today_total" -> TodayBodies
      [] job = "now_total" -> NowBodies
      [] OTHER -> HistoryBodies

(***************************************************************************)
(* Outcomes of the calls a handler makes to the outside.                   *)
(*   fetch  get_requests returns ("ok") or raises ("raise")                *)
(*   post   post_line returns ("ok") or raises ("raise")                   *)
(*   crash  the process is killed: "after_post" (post_line has returned,   *)
(*          no json_write has run), "between_writes" (today_total only:    *)
(*          daily.json is written, save.json is not), or "none"            *)
(***************************************************************************)
PostOutcomes == {"ok", "raise"}

CrashPoints(job) ==
    IF job = "today_total" THEN {"after_post", "between_writes"} ELSE {"after_post"}

FetchFailed == [fetch |-> "raise", body |-> None, post |-> "ok", crash |-> "none"]

Fetched(b, p, c) == [fetch |-> "ok", body |-> Some(b), post |-> p, crash |-> c]

\* every outcome of one invocation without a crash
LiveEnvs(job) ==
    {FetchFailed} \cup {Fetched(b, p, "none") : b \in Bodies(job), p \in PostOutcomes}

\* the outcomes of one invocation in which post_line returns and the
\* process is not killed
CleanEnvs(job) ==
    {FetchFailed} \cup {Fetched(b, "ok", "none") : b \in Bodies(job)}

\* every outcome of one invocation
Envs(job) ==
    LiveEnvs(job) \cup {Fetched(b, "ok", c) : b \in Bodies(job), c \in CrashPoints(job)}

(***************************************************************************)
(* The record of one invocation.                                           *)
(***************************************************************************)
NoRun ==
    [n |-> 0, job |-> "none", fetch |-> "none", body |-> None, gets |-> 0,
     graphs |-> <<>>, msgs |-> <<>>, post |-> "none", writes |-> <<>>,
     exc |-> "none", crash |-> "none", cached_on |-> -1]

\* faulty variant of Aborted: the handler fetches a second time before giving up
AbortedAfterRetry(job, n) ==
    [NoRun EXCEPT !.n = n, !.job = job, !.fetch = "raise", !.gets = 2]

\* the except branch of a handler: print the error and return
Aborted(job, n) ==
    [NoRun EXCEPT !.n = n, !.job = job, !.fetch = "raise", !.gets = 1]

\* the handler found nothing new and returned
NoChange(job, d, env, n) ==
    [disk |-> d,
     run |-> [NoRun EXCEPT !.n = n, !.job = job, !.fetch = "ok",
                           !.body = env.body, !.gets = 1]]

RECURSIVE ApplyWrites(_, _)
ApplyWrites(d, ws) ==
    IF ws = <<>> THEN d
    ELSE ApplyWrites(json_write(d, Head(ws).path, Head(ws).data), Tail(ws))

Paths(ws) == [i \in 1..Len(ws) |-> ws[i].path]

\* faulty variant of WritesDone: the cache is written before post_line is called
WritesBeforePost(env, nwrites) ==
    IF env.crash = "between_writes" THEN 1 ELSE nwrites

\* faulty variant of WritesDone: a failed post_line is swallowed and the
\* handler goes on to write its cache
WritesDespiteRaise(env, nwrites) ==
    IF env.crash = "after_post" THEN 0
    ELSE IF env.crash = "between_writes" THEN 1
    ELSE nwrites

\* how many of a handler's json_write calls run, given what happened at and
\* after post_line (the writes follow post_line in every handler)
WritesDone(env, nwrites) ==
    IF env.post = "raise" \/ env.crash = "after_post" THEN 0
    ELSE IF env.crash = "between_writes" THEN 1
    ELSE nwrites

\* the changed branch of a handler: make_graph, post_line, json_write...
Notify(job, d, env, n, graphs, msg, writes) ==
    LET k == WritesDone(env, Len(writes))
        done == SubSeq(writes, 1, k)
    IN  [disk |-> ApplyWrites(d, done),
         run |-> [n |-> n, job |-> job, fetch |-> "ok", body |-> env.body,
                  gets |-> 1, graphs |-> graphs, msgs |-> <<msg>>,
                  post |-> env.post, writes |-> Paths(done),
                  exc |-> IF env.post = "raise" THEN "post_line" ELSE "none",
                  crash |-> IF env.post = "raise" THEN "none" ELSE env.crash,
                  cached_on |-> -1]]

(***************************************************************************)
(* today_total                                                             *)
(***************************************************************************)
\* datetime.strptime(str(day), '%Y%m%d').month and .day
strptime_month(day) == (day \div 100) % 100
strptime_day(day) == day % 100

\* faulty variant of OldDay: the cached snapshot is not consulted
OldDayIgnored(save) == None

\* old_day: the cached date, or None without a cache
OldDay(save) == IF isfile(save) THEN Some(json_read(save).date) ELSE None

\* faulty variant of Difference: the operands of the subtraction are swapped
DifferenceReversed(save, body) ==
    IF isfile(save) THEN json_read(save).positive - body.positive ELSE 0

\* faulty variant of Difference: a missing cache counts as a cached count of zero
DifferenceFromZero(save, body) ==
    IF isfile(save) THEN body.positive - json_read(save).positive ELSE body.positive

\* difference: against the cached positive count, 0 without a cache
Difference(save, body) ==
    IF isfile(save) THEN body.positive - json_read(save).positive ELSE 0

\* faulty variant of IsNewDay: the date comparison is dropped
IsNewDayAlways(day, old_day) == TRUE

\* if day != old_day
IsNewDay(day, old_day) == Some(day) # old_day

\* daily: the persisted series, [] without a file
LoadDaily(daily) == IF isfile(daily) THEN json_read(daily) ELSE <<>>

\* faulty variant of AppendDaily: the new record is put first
PrependDaily(daily, day, difference) ==
    <<[date |-> day, positive |-> difference]>> \o daily

\* daily.append({'date': day, 'positive': difference})
AppendDaily(daily, day, difference) ==
    Append(daily, [date |-> day, positive |-> difference])

today_total(d, env, n) ==
    IF env.fetch = "raise" THEN [disk |-> d, run |-> Aborted("today_total", n)]
    ELSE
    LET body == json_read(env.body)
        day == body.date
        old_day == OldDay(d.save)
        difference == Difference(d.save, body)
    IN  IF IsNewDay(day, old_day)
        THEN LET daily == AppendDaily(LoadDaily(d.daily), day, difference)
                 msg == [job |-> "today_total",
                         text |-> <<strptime_month(day), strptime_day(day),
                                    body.positive, difference>>,
                         image |-> "graph_dayly.png"]
             IN  Notify("today_total", d, env, n, <<"graph_dayly.png">>, msg,
                        <<[path |-> "daily", data |-> daily],
                          [path |-> "save", data |-> body]>>)
        ELSE NoChange("today_total", d, env, n)

(***************************************************************************)
(* now_total                                                               *)
(***************************************************************************)
RECURSIVE ParseDigits(_, _)
ParseDigits(s, acc) ==
    IF s = <<>> THEN acc ELSE ParseDigits(Tail(s), 10 * acc + Head(s))

\* int(body_metadata['cases'])
ToInt(c) == IF c.t = "int" THEN c.n ELSE ParseDigits(c.s, 0)

\* total_patient: the sum of the cases fields
RECURSIVE TotalPatient(_)
TotalPatient(body) ==
    IF body = <<>> THEN 0 ELSE ToInt(Head(body).cases) + TotalPatient(Tail(body))

\* the calendar day a clock value falls on, and its day of the month
DayIndex(t) == t \div DayLen
DayOfMonth(t) == (DayIndex(t) % DaysPerMonth) + 1
\* faulty variant of strftime_d: the format is '%m%d', month and day
strftime_md(t) ==
    LET month == (DayIndex(t) \div DaysPerMonth) + 1
    IN  <<month \div 10, month % 10, DayOfMonth(t) \div 10, DayOfMonth(t) % 10>>

\* datetime.datetime.now().strftime('%d'): two digits, zero padded
strftime_d(t) == <<DayOfMonth(t) \div 10, DayOfMonth(t) % 10>>

\* the state assumed when day_before.json does not exist
DefaultOldPatient == [patient |-> 0, before |-> 0, date |-> None]

LoadOldPatient(f) == IF isfile(f) THEN json_read(f) ELSE DefaultOldPatient

\* faulty variant of TotalChanged: the total is compared with the wrong key
TotalChangedVsPatient(total_patient, old_patient) ==
    total_patient # old_patient.patient

\* if total_patient != old_patient['before']
TotalChanged(total_patient, old_patient) == total_patient # old_patient.before

\* faulty variant of Rollover: the baseline is advanced on every change
RolloverAlways(old_patient, date) ==
    [old_patient EXCEPT !.patient = old_patient.before]

\* faulty variant of Rollover: the baseline is never advanced
RolloverSkipped(old_patient, date) == old_patient

\* if old_patient['date'] != date: old_patient['patient'] = old_patient['before']
Rollover(old_patient, date) ==
    IF old_patient.date # date
    THEN [old_patient EXCEPT !.patient = old_patient.before]
    ELSE old_patient

now_total(d, now, env, n) ==
    IF env.fetch = "raise" THEN [disk |-> d, run |-> Aborted("now_total", n)]
    ELSE
    LET body == json_read(env.body)
        old_patient == LoadOldPatient(d.day_before)
        total_patient == TotalPatient(body)
    IN  IF TotalChanged(total_patient, old_patient)
        THEN LET date == strftime_d(now)
                 rolled == Rollover(old_patient, date)
                 difference == total_patient - rolled.patient
                 msg == [job |-> "now_total",
                         text |-> <<total_patient, difference>>,
                         image |-> "none"]
                 new == [rolled EXCEPT !.before = total_patient, !.date = date]
             IN  Notify("now_total", d, env, n, <<>>, msg,
                        <<[path |-> "day_before", data |-> new]>>)
        ELSE NoChange("now_total", d, env, n)

(***************************************************************************)
(* total_history and prediction                                            *)
(***************************************************************************)
\* old_body: the cached series, [] without a file
LoadHistory(f) == IF isfile(f) THEN json_read(f) ELSE <<>>

\* faulty variant of BodyChanged: only the lengths of the series are compared
BodyLengthChanged(body, old_body) == Len(body) # Len(old_body)

\* if body != old_body
BodyChanged(body, old_body) == body # old_body

total_history(d, env, n) ==
    IF env.fetch = "raise" THEN [disk |-> d, run |-> Aborted("total_history", n)]
    ELSE
    LET body == json_read(env.body)
        old_body == LoadHistory(d.history)
    IN  IF BodyChanged(body, old_body)
        THEN Notify("total_history", d, env, n, <<"graph.png">>,
                    [job |-> "total_history", text |-> <<>>, image |-> "graph.png"],
                    <<[path |-> "history", data |-> body]>>)
        ELSE NoChange("total_history", d, env, n)

\* faulty variant of prediction: it keeps its series in total_history's file
PredictionSharedCache(d, env, n) ==
    IF env.fetch = "raise" THEN [disk |-> d, run |-> Aborted("prediction", n)]
    ELSE
    LET body == json_read(env.body)
        old_body == LoadHistory(d.history)
    IN  IF BodyChanged(body, old_body)
        THEN Notify("prediction", d, env, n, <<"graph_prodiction.png">>,
                    [job |-> "prediction", text |-> <<>>,
                     image |-> "graph_prodiction.png"],
                    <<[path |-> "history", data |-> body]>>)
        ELSE NoChange("prediction", d, env, n)

prediction(d, env, n) ==
    IF env.fetch = "raise" THEN [disk |-> d, run |-> Aborted("prediction", n)]
    ELSE
    LET body == json_read(env.body)
        old_body == LoadHistory(d.history_prodiction)
    IN  IF BodyChanged(body, old_body)
        THEN Notify("prediction", d, env, n, <<"graph_prodiction.png">>,
                    [job |-> "prediction", text |-> <<>>,
                     image |-> "graph_prodiction.png"],
                    <<[path |-> "history_prodiction", data |-> body]>>)
        ELSE NoChange("prediction", d, env, n)

\* what post_line delivered in an invocation: its message, unless it raised
Delivered(r) == IF r.post = "ok" THEN r.msgs ELSE <<>>

\* the record of a now_total invocation that loaded the cache notes the
\* calendar day on which day_before.json was last written
Observe(r, job, st) ==
    IF job = "now_total" /\ r.fetch = "ok" THEN [r EXCEPT !.cached_on = st] ELSE r

\* the day of the last write of day_before.json after an invocation
Touch(r, st, now) ==
    IF \E i \in 1..Len(r.writes) : r.writes[i] = "day_before"
    THEN DayIndex(now) ELSE st

\* the job function a schedule entry calls
Handler(job, d, now, env, n) ==
    CASE job = "today_total" -> today_total(d, env, n)
      [] job = "now_total" -> now_total(d, now, env, n)
      [] job = "total_history" -> total_history(d, env, n)
      [] job = "prediction" -> prediction(d, env, n)

(***************************************************************************)
(* The schedule built by main.                                             *)
(***************************************************************************)
\* the jobs in the order main registers them
Registered == <<"today_total", "total_history", "prediction", "now_total">>

\* every().day.at('00:00'): the first midnight after t
NextMidnight(t) == (DayIndex(t) + 1) * DayLen

\* the time a job is next due, scheduled at time t
ScheduleNext(job, t) == IF job = "now_total" THEN t + HourLen ELSE NextMidnight(t)

\* insertion of a job into a list ordered by due time, behind its equals
RECURSIVE InsertByDue(_, _, _)
InsertByDue(sorted, job, due) ==
    IF sorted = <<>> THEN <<job>>
    ELSE IF due[job] < due[Head(sorted)] THEN <<job>> \o sorted
    ELSE <<Head(sorted)>> \o InsertByDue(Tail(sorted), job, due)

RECURSIVE SortByDue(_, _)
SortByDue(js, due) ==
    IF js = <<>> THEN <<>>
    ELSE InsertByDue(SortByDue(SubSeq(js, 1, Len(js) - 1), due), js[Len(js)], due)

\* faulty variant of Runnable: the due jobs are left in registration order
RunnableUnsorted(due, now) == SelectSeq(Registered, LAMBDA j : now >= due[j])

\* run_pending: the jobs that are due, ordered by due time; jobs due at the
\* same time keep their registration order
Runnable(due, now) ==
    SortByDue(SelectSeq(Registered, LAMBDA j : now >= due[j]), due)

(***************************************************************************)
(* Initial states.                                                         *)
(***************************************************************************)
Scheduled(t) == [j \in JobNames |-> ScheduleNext(j, t)]

Init ==
    /\ disk = EmptyDisk
    /\ clock = 0
    /\ run = NoRun
    /\ sent = [j \in JobNames |-> 0]
    /\ stamp = -1
    /\ pc = "run_pending"
    /\ next_run = Scheduled(0)
    /\ pending = <<>>
    /\ ran = <<>>

\* main starts at any time of day
InitMain ==
    /\ disk = EmptyDisk
    /\ clock \in 0 .. (DayLen - 1)
    /\ run = NoRun
    /\ sent = [j \in JobNames |-> 0]
    /\ stamp = -1
    /\ pc = "run_pending"
    /\ next_run = Scheduled(clock)
    /\ pending = <<>>
    /\ ran = <<>>

(***************************************************************************)
(* Spec: the handlers, invoked in any order.                               *)
(***************************************************************************)
Invoke(job, env) ==
    /\ run.n < MaxRuns
    /\ LET r == Handler(job, disk, clock, env, run.n + 1)
       IN  /\ disk' = r.disk
           /\ run' = Observe(r.run, job, stamp)
           /\ sent' = [sent EXCEPT ![job] = @ + Len(Delivered(r.run))]
           /\ stamp' = Touch(r.run, stamp, clock)
    /\ UNCHANGED <<clock, pc, next_run, pending, ran>>

TodayTotal == \E env \in Envs("today_total") : Invoke("today_total", env)

NowTotal == \E env \in Envs("now_total") : Invoke("now_total", env)

TotalHistory == \E env \in Envs("total_history") : Invoke("total_history", env)

Prediction == \E env \in Envs("prediction") : Invoke("prediction", env)

\* a calendar day passes
NextDay ==
    /\ DayIndex(clock) < MaxDays
    /\ clock' = clock + DayLen
    /\ UNCHANGED <<disk, run, sent, stamp, pc, next_run, pending, ran>>

Next == TodayTotal \/ NowTotal \/ TotalHistory \/ Prediction \/ NextDay

Spec == Init /\ [][Next]_vars

(***************************************************************************)
(* SpecClean: the handlers, invoked in any order, in executions without a  *)
(* kill of the process and without a failure of post_line.                 *)
(***************************************************************************)
TodayTotalClean == \E env \in CleanEnvs("today_total") : Invoke("today_total", env)

NowTotalClean == \E env \in CleanEnvs("now_total") : Invoke("now_total", env)

TotalHistoryClean ==
    \E env \in CleanEnvs("total_history") : Invoke("total_history", env)

PredictionClean == \E env \in CleanEnvs("prediction") : Invoke("prediction", env)

NextClean ==
    TodayTotalClean \/ NowTotalClean \/ TotalHistoryClean \/ PredictionClean \/ NextDay

SpecClean == Init /\ [][NextClean]_vars

(***************************************************************************)
(* SpecMain: while(True): schedule.run_pending(); time.sleep(1)            *)
(***************************************************************************)
\* run_pending picks the due jobs
run_pending ==
    /\ pc = "run_pending"
    /\ pending' = Runnable(next_run, clock)
    /\ ran' = <<>>
    /\ pc' = IF pending' = <<>> THEN "sleep" ELSE "jobs"
    /\ UNCHANGED <<disk, clock, run, sent, stamp, next_run>>

\* run_pending runs the next due job to completion; an exception the job
\* does not catch leaves run_pending and the while loop of main
run_job ==
    /\ pc = "jobs"
    /\ pending # <<>>
    /\ LET job == Head(pending)
       IN  \E env \in LiveEnvs(job) :
             LET r == Handler(job, disk, clock, env, run.n + 1)
             IN  /\ disk' = r.disk
                 /\ run' = Observe(r.run, job, stamp)
                 /\ sent' = [sent EXCEPT ![job] = @ + Len(Delivered(r.run))]
                 /\ stamp' = Touch(r.run, stamp, clock)
                 /\ ran' = Append(ran, [job |-> job, due |-> next_run[job]])
                 /\ IF r.run.exc # "none"
                    THEN /\ pc' = "dead"
                         /\ UNCHANGED <<next_run, pending>>
                    ELSE /\ next_run' = [next_run EXCEPT ![job] = ScheduleNext(job, clock)]
                         /\ pending' = Tail(pending)
                         /\ pc' = IF pending' = <<>> THEN "sleep" ELSE "jobs"
    /\ UNCHANGED clock

\* time.sleep(1)
sleep ==
    /\ pc = "sleep"
    /\ clock + SleepLen <= MaxClock
    /\ clock' = clock + SleepLen
    /\ pc' = "run_pending"
    /\ UNCHANGED <<disk, run, sent, stamp, next_run, pending, ran>>

NextMain == run_pending \/ run_job \/ sleep

SpecMain == InitMain /\ [][NextMain]_vars

(***************************************************************************)
(* Properties.                                                             *)
(***************************************************************************)
\* the content of a cache file, or a default when the file does not exist
FileOr(f, default) == IF f = <<>> THEN default ELSE f[1]

IsPrefix(s, t) == Len(s) <= Len(t) /\ SubSeq(t, 1, Len(s)) = s

\* this step is an invocation of job
InvocationOf(job) == run'.n = run.n + 1 /\ run'.job = job

\* the invocation fetched, posted if it had to, and returned
Completed(r) == r.fetch = "ok" /\ r.exc = "none" /\ r.crash = "none"

\* the payload an invocation fetched
BodyOf(r) == r.body[1]

Position(job) == CHOOSE i \in 1..Len(Registered) : Registered[i] = job

\* C1: a today_total run that fetches, and returns, with a cached snapshot
\* {date: D1, positive: P1} and a payload {date: D2, positive: P2} appends
\* exactly the record {date: D2, positive: P2 - P1} to the persisted
\* DailySeries when D2 # D1, and leaves the series as it is when D2 = D1.
C1_DailyAppend ==
    [][ (InvocationOf("today_total") /\ Completed(run') /\ disk.save # <<>>)
        => LET old == disk.save[1]
               body == BodyOf(run')
               series == FileOr(disk.daily, <<>>)
           IN  IF body.date # old.date
               THEN disk'.daily =
                      <<Append(series, [date |-> body.date,
                                        positive |-> body.positive - old.positive])>>
               ELSE disk'.daily = disk.daily ]_vars

\* C1 witness: a completed run has appended the record for a new date with
\* the difference 130 - 100 to a series that held one record
C1_Witness ==
    /\ run.job = "today_total" /\ Completed(run)
    /\ run.writes = <<"daily", "save">>
    /\ disk.daily = <<  <<[date |-> 20200401, positive |-> 0],
                          [date |-> 20200402, positive |-> 30]>>  >>

\* C2: a now_total run whose summed cases equal the stored running count
\* ('before', 0 without a file) posts nothing, writes nothing and leaves the
\* whole saves directory as it was, however often it is repeated.
C2_NoChangeNoOp ==
    [][ (InvocationOf("now_total") /\ run'.fetch = "ok"
         /\ TotalPatient(BodyOf(run')) = FileOr(disk.day_before, DefaultOldPatient).before)
        => /\ run'.msgs = <<>>
           /\ run'.writes = <<>>
           /\ run'.exc = "none"
           /\ disk' = disk
           /\ sent' = sent ]_vars

\* C2 witness: a run found the total 130 equal to the stored running count
\* 130 and did nothing
C2_Witness ==
    /\ run.job = "now_total" /\ run.fetch = "ok"
    /\ disk.day_before # <<>>
    /\ disk.day_before[1].before = 130
    /\ TotalPatient(BodyOf(run)) = 130
    /\ run.msgs = <<>>

\* C3: a now_total run that sees a changed total on a day of the month other
\* than the stored one reports total - (old running count), and a run that
\* returns persists the old running count as the yesterday baseline.
C3_Rollover ==
    [][ (/\ InvocationOf("now_total") /\ run'.fetch = "ok"
         /\ TotalPatient(BodyOf(run')) # FileOr(disk.day_before, DefaultOldPatient).before
         /\ FileOr(disk.day_before, DefaultOldPatient).date # strftime_d(clock))
        => LET old == FileOr(disk.day_before, DefaultOldPatient)
               total == TotalPatient(BodyOf(run'))
           IN  /\ Len(run'.msgs) = 1
               /\ run'.msgs[1].text = <<total, total - old.before>>
               /\ Completed(run') =>
                    disk'.day_before =
                      <<[patient |-> old.before, before |-> total,
                         date |-> strftime_d(clock)]>> ]_vars

\* C3 witness: the example of the claim: from {running: 100, yesterday: 80,
\* day: "01"} a total of 130 on day "02" gives yesterday = 100, difference 30
C3_Witness ==
    /\ run.job = "now_total" /\ Completed(run)
    /\ run.msgs = <<[job |-> "now_total", text |-> <<130, 30>>, image |-> "none"]>>
    /\ disk.day_before = <<[patient |-> 100, before |-> 130, date |-> <<0, 2>>]>>
    /\ sent["now_total"] = 3

\* C4, first half: a run of job right after a completed run of job that
\* fetched the same payload posts nothing and writes nothing
C4_Same(job) ==
    (/\ run.job = job /\ Completed(run)
     /\ InvocationOf(job) /\ run'.fetch = "ok" /\ run'.body = run.body)
    => /\ run'.msgs = <<>>
       /\ run'.writes = <<>>
       /\ disk' = disk
       /\ sent' = sent

\* C4, second half: a completed run of job whose payload differs from the
\* cached copy ([] without a file) posts once and replaces the cache by the
\* payload
C4_Diff(job, path) ==
    (/\ InvocationOf(job) /\ Completed(run')
     /\ BodyOf(run') # FileOr(disk[path], <<>>))
    => /\ Len(run'.msgs) = 1
       /\ sent'[job] = sent[job] + 1
       /\ run'.writes = <<path>>
       /\ disk' = [disk EXCEPT ![path] = run'.body]

\* C4: total_history and prediction, runs that return: an identical payload
\* on two consecutive runs makes the second send nothing and write nothing;
\* a payload that differs from the cached copy in any element makes the run
\* send exactly one notification and overwrite the cache with the payload.
C4_HistoryChangeDetection ==
    [][ /\ C4_Same("total_history")
        /\ C4_Same("prediction")
        /\ C4_Diff("total_history", "history")
        /\ C4_Diff("prediction", "history_prodiction") ]_vars

\* C4 witness: a second total_history run fetched the cached series again
\* and sent nothing: one notification for two runs
C4_Witness ==
    /\ run.job = "total_history" /\ Completed(run) /\ run.n = 2
    /\ run.body = disk.history
    /\ run.msgs = <<>>
    /\ sent["total_history"] = 1

\* C5 as claimed: the first run of a job, when it fetches and returns, has
\* sent exactly one notification whatever the payload is.
C5_FirstRunAlwaysNotifies ==
    (run.n = 1 /\ Completed(run)) => sent[run.job] = 1

C5_Today ==
    (InvocationOf("today_total") /\ run'.fetch = "ok"
     /\ disk.save = <<>> /\ disk.daily = <<>>)
    => /\ Len(run'.msgs) = 1
       /\ run'.msgs[1].text[4] = 0
       /\ Completed(run') =>
            disk'.daily = << <<[date |-> BodyOf(run').date, positive |-> 0]>> >>

C5_Now ==
    (InvocationOf("now_total") /\ run'.fetch = "ok" /\ disk.day_before = <<>>)
    => LET total == TotalPatient(BodyOf(run'))
       IN  IF total = 0
           THEN run'.msgs = <<>> /\ disk' = disk
           ELSE /\ Len(run'.msgs) = 1
                /\ run'.msgs[1].text = <<total, total>>
                /\ Completed(run') =>
                     disk'.day_before =
                       <<[patient |-> 0, before |-> total, date |-> strftime_d(clock)]>>

C5_History(job, path) ==
    (InvocationOf(job) /\ run'.fetch = "ok" /\ disk[path] = <<>>)
    => IF BodyOf(run') = <<>>
       THEN run'.msgs = <<>> /\ disk' = disk
       ELSE Len(run'.msgs) = 1

\* C5 (amended): on the first run of a job, with no cache file, the missing
\* file raises nothing and stands for the default baseline; today_total
\* calls post_line exactly once, with difference 0; now_total calls it
\* exactly once, with difference = total, unless the total is 0;
\* total_history and prediction call it exactly once unless the payload is
\* the empty array; a total of 0 or an empty array sends and writes nothing.
\* The call delivers exactly one notification unless post_line itself raises.
C5_FirstRun ==
    [][ /\ C5_Today
        /\ C5_Now
        /\ C5_History("total_history", "history")
        /\ C5_History("prediction", "history_prodiction")
        /\ \A j \in JobNames :
             (InvocationOf(j) /\ run'.fetch = "ok")
             => /\ run'.exc # "none" => run'.post = "raise"
                /\ sent'[j] = sent[j] + (IF run'.post = "ok" THEN Len(run'.msgs) ELSE 0)
      ]_vars

\* C5 witness: the very first run, of now_total with a total of 80, has sent
\* one notification reporting +80 against the default baseline
C5_Witness ==
    /\ run.n = 1 /\ run.job = "now_total" /\ Completed(run)
    /\ run.msgs = <<[job |-> "now_total", text |-> <<80, 80>>, image |-> "none"]>>
    /\ sent["now_total"] = 1

\* C6: a run whose get_requests raises fetches once, posts nothing, renders
\* nothing, writes nothing, raises nothing and leaves every cache file and
\* the notification counts as they were, so the runs after it start from
\* the state they would have had without it.
C6_FetchFailure ==
    [][ (run'.n = run.n + 1 /\ run'.fetch = "raise")
        => /\ disk' = disk
           /\ sent' = sent
           /\ run'.gets = 1
           /\ run'.msgs = <<>> /\ run'.graphs = <<>> /\ run'.writes = <<>>
           /\ run'.exc = "none" /\ run'.crash = "none" ]_vars

\* C6 witness: a fetch failed after an earlier run had written caches and
\* sent a notification
C6_Witness ==
    /\ run.fetch = "raise" /\ run.n >= 2
    /\ disk.save # <<>>
    /\ sent["today_total"] = 1

\* C7 as claimed: a post_line that raises inside a job does not end the
\* loop of main.
C7_SendFailureContained == run.exc = "post_line" => pc # "dead"

\* C8 as claimed: the jobs of one run_pending pass run in registration order.
C8_RegistrationOrder ==
    \A i, j \in 1..Len(ran) :
        i < j => Position(ran[i].job) < Position(ran[j].job)

\* C8 (amended): the jobs that are due on a poll run one after the other in
\* the order of their due times, jobs due at the same time in registration
\* order (so today_total, total_history, prediction in that order, and
\* now_total before them when it was due before midnight, after them
\* otherwise); each was due, and the loop sleeps only when every due job
\* has run and is scheduled again for a later time.
C8_DueOrder ==
    /\ \A i, j \in 1..Len(ran) :
         i < j => \/ ran[i].due < ran[j].due
                  \/ /\ ran[i].due = ran[j].due
                     /\ Position(ran[i].job) < Position(ran[j].job)
    /\ \A i \in 1..Len(ran) : ran[i].due <= clock
    /\ pc = "sleep" => /\ pending = <<>>
                       /\ \A j \in JobNames : next_run[j] > clock

\* C8 witness: all four jobs ran on one poll, now_total first
C8_Witness ==
    /\ pc = "sleep" /\ Len(ran) = 4
    /\ ran[1].job = "now_total"
    /\ ran[2].job = "today_total"

\* the file a job compares the payload with
CachePath(job) ==
    CASE job = "today_total" -> "save"
      [] job = "now_total" -> "day_before"
      [] job = "total_history" -> "history"
      [] job = "prediction" -> "history_prodiction"

\* C9: when the process dies after post_line has returned and before the
\* job's cache is written, the notification is delivered and the cache the
\* job compares with is as before; the next run of that job that fetches
\* the same payload posts again: the same message for today_total,
\* total_history and prediction, the same total for now_total.
C9_CrashWindow ==
    [][ /\ (run'.n = run.n + 1 /\ run'.crash # "none")
           => /\ Len(run'.msgs) = 1
              /\ sent'[run'.job] = sent[run'.job] + 1
              /\ disk'[CachePath(run'.job)] = disk[CachePath(run'.job)]
        /\ (/\ run.crash # "none"
            /\ InvocationOf(run.job) /\ run'.fetch = "ok" /\ run'.body = run.body)
           => /\ Len(run'.msgs) = 1
              /\ run.job # "now_total" => run'.msgs = run.msgs
              /\ run.job = "now_total" => run'.msgs[1].text[1] = run.msgs[1].text[1]
      ]_vars

\* C9 witness: total_history was killed after its notification went out;
\* the cache does not hold the payload
C9_Witness ==
    /\ run.job = "total_history" /\ run.crash = "after_post"
    /\ sent["total_history"] = 1
    /\ disk.history # run.body

\* C10: every step leaves the persisted DailySeries a prefix of itself and
\* adds at most one record.
C10_AppendOnly ==
    [][ LET old == FileOr(disk.daily, <<>>)
            new == FileOr(disk'.daily, <<>>)
        IN  IsPrefix(old, new) /\ Len(new) <= Len(old) + 1 ]_vars

\* C10 witness: three runs have appended three records
C10_Witness ==
    /\ run.job = "today_total"
    /\ disk.daily # <<>>
    /\ Len(disk.daily[1]) = 3

\* C11: a today_total run that fetches a payload whose date equals the
\* cached snapshot's date posts nothing, renders nothing, writes nothing and
\* leaves daily.json, save.json and the notification counts as they were,
\* whatever the fetched positive count is.
C11_SameDateNoOp ==
    [][ (/\ InvocationOf("today_total") /\ run'.fetch = "ok"
         /\ disk.save # <<>>
         /\ BodyOf(run').date = disk.save[1].date)
        => /\ run'.msgs = <<>>
           /\ run'.graphs = <<>>
           /\ run'.writes = <<>>
           /\ run'.exc = "none"
           /\ disk' = disk
           /\ sent' = sent ]_vars

\* C11 witness: a run fetched the cached date with another positive count
\* and did nothing; the one notification is that of the first run
C11_Witness ==
    /\ run.job = "today_total" /\ run.fetch = "ok"
    /\ disk.save # <<>>
    /\ BodyOf(run).date = disk.save[1].date
    /\ BodyOf(run).positive # disk.save[1].positive
    /\ run.msgs = <<>>
    /\ sent["today_total"] = 1

\* C12: a now_total run whose summed total differs from the running count
\* posts exactly one message, without an image, reporting total - yesterday,
\* where yesterday is the old running count if the day of the month differs
\* from the stored one and the stored yesterday otherwise; a run that
\* returns persists {yesterday, running = total, day = today}.
C12_ChangeStep ==
    [][ (/\ InvocationOf("now_total") /\ run'.fetch = "ok"
         /\ TotalPatient(BodyOf(run')) # FileOr(disk.day_before, DefaultOldPatient).before)
        => LET old == FileOr(disk.day_before, DefaultOldPatient)
               total == TotalPatient(BodyOf(run'))
               today == <<DayOfMonth(clock) \div 10, DayOfMonth(clock) % 10>>
               yesterday == IF old.date # today THEN old.before ELSE old.patient
           IN  /\ run'.msgs = <<[job |-> "now_total",
                                 text |-> <<total, total - yesterday>>,
                                 image |-> "none"]>>
               /\ run'.graphs = <<>>
               /\ sent'["now_total"] =
                    sent["now_total"] + (IF run'.post = "ok" THEN 1 ELSE 0)
               /\ Completed(run') =>
                    disk'.day_before =
                      <<[patient |-> yesterday, before |-> total, date |-> today]>>
      ]_vars

\* C12 witness: two changes on one day (80, then 100) are both reported
\* against the baseline 0: the second message says +100
C12_Witness ==
    /\ run.job = "now_total" /\ Completed(run)
    /\ run.cached_on = DayIndex(clock)
    /\ run.msgs = <<[job |-> "now_total", text |-> <<100, 100>>, image |-> "none"]>>
    /\ disk.day_before # <<>>
    /\ disk.day_before[1].patient = 0
    /\ sent["now_total"] = 2

\* C13: the rollover can misfire.  Whenever now_total sees a changed total
\* on a calendar day other than the one on which day_before.json was last
\* written, but with the same day of the month, the yesterday baseline is
\* not advanced: the reported difference is total - (stored yesterday), and
\* the stored yesterday is persisted again.  Such a run is reachable
\* (C13_Witness).
C13_RolloverMisfire ==
    [][ (/\ InvocationOf("now_total") /\ run'.fetch = "ok"
         /\ disk.day_before # <<>>
         /\ TotalPatient(BodyOf(run')) # disk.day_before[1].before
         /\ stamp # -1 /\ stamp # DayIndex(clock)
         /\ DayOfMonth(stamp * DayLen) = DayOfMonth(clock))
        => LET old == disk.day_before[1]
               total == TotalPatient(BodyOf(run'))
           IN  /\ Len(run'.msgs) = 1
               /\ run'.msgs[1].text = <<total, total - old.patient>>
               /\ Completed(run') => disk'.day_before[1].patient = old.patient
      ]_vars

\* C13 witness: the first change was reported and stored on one calendar
\* day; the second run, the next change, falls on a later calendar day with
\* the same day of the month: the baseline is still 0, not the running
\* count the first run stored, and the message says +100
C13_Witness ==
    /\ run.n = 2 /\ run.job = "now_total" /\ Completed(run)
    /\ sent["now_total"] = 2
    /\ run.cached_on # -1
    /\ run.cached_on < DayIndex(clock)
    /\ DayOfMonth(run.cached_on * DayLen) = DayOfMonth(clock)
    /\ run.msgs = <<[job |-> "now_total", text |-> <<100, 100>>, image |-> "none"]>>
    /\ disk.day_before # <<>>
    /\ disk.day_before[1].patient = 0
    /\ disk.day_before[1].before = 100

\* the cache files the claim gives each job
JobFiles(job) ==
    CASE job = "today_total" -> {"save", "daily"}
      [] job = "now_total" -> {"day_before"}
      [] job = "total_history" -> {"history"}
      [] job = "prediction" -> {"history_prodiction"}

AllFiles == {"save", "daily", "day_before", "history", "history_prodiction"}

\* the saves directory with every file but the job's own removed
OwnOnly(d, job) == [p \in AllFiles |-> IF p \in JobFiles(job) THEN d[p] ELSE <<>>]

\* the outcomes of the outside calls that an invocation record shows
EnvOf(r) ==
    IF r.fetch = "raise" THEN FetchFailed
    ELSE Fetched(r.body[1], IF r.post = "raise" THEN "raise" ELSE "ok", r.crash)

\* C14: an invocation of a job writes only that job's files, leaves every
\* other file and every other job's notification count as it was, and does
\* what it would have done had the other jobs' files not existed.
C14_Independence ==
    [][ \A j \in JobNames :
          InvocationOf(j)
          => /\ \A p \in AllFiles \ JobFiles(j) : disk'[p] = disk[p]
             /\ \A i \in 1..Len(run'.writes) : run'.writes[i] \in JobFiles(j)
             /\ \A k \in JobNames \ {j} : sent'[k] = sent[k]
             /\ LET alone == Handler(j, OwnOnly(disk, j), clock, EnvOf(run'), run'.n)
                IN  /\ Observe(alone.run, j, stamp) = run'
                    /\ \A p \in JobFiles(j) : alone.disk[p] = disk'[p]
      ]_vars

\* C14 witness: prediction has cached its series while total_history's
\* cache holds another series
C14_Witness ==
    /\ run.job = "prediction" /\ Completed(run)
    /\ run.writes = <<"history_prodiction">>
    /\ disk.history_prodiction = run.body
    /\ disk.history # <<>>
    /\ disk.history # disk.history_prodiction

\* C15: in executions without a kill and without a send failure, started
\* with an empty saves directory: save.json exists exactly when the
\* DailySeries is not empty, the last record of the series carries the
\* cached snapshot's date, adjacent records carry different dates, and
\* today_total has sent as many notifications as the series has records.
C15_DailyConsistency ==
    LET series == FileOr(disk.daily, <<>>)
    IN  /\ (disk.save # <<>>) <=> (series # <<>>)
        /\ disk.save # <<>> => series[Len(series)].date = disk.save[1].date
        /\ \A i \in 1..(Len(series) - 1) : series[i].date # series[i + 1].date
        /\ sent["today_total"] = Len(series)

\* C15 witness: three runs on alternating dates: three records, three
\* notifications, the snapshot of the last date
C15_Witness ==
    /\ run.job = "today_total" /\ Completed(run)
    /\ disk.daily # <<>> /\ Len(disk.daily[1]) = 3
    /\ sent["today_total"] = 3
    /\ disk.save = run.body

\* C16: a run in which post_line raises writes no cache file, delivers
\* nothing and leaves the saves directory as it was; the next run of that
\* job that fetches the same payload calls post_line again.
C16_SendFailure ==
    [][ /\ (run'.n = run.n + 1 /\ run'.exc = "post_line")
           => /\ Len(run'.msgs) = 1
              /\ run'.writes = <<>>
              /\ disk' = disk
              /\ sent' = sent
        /\ (/\ run.exc = "post_line"
            /\ InvocationOf(run.job) /\ run'.fetch = "ok" /\ run'.body = run.body)
           => /\ Len(run'.msgs) = 1
              /\ run'.post # "none"
      ]_vars

\* C16 witness: today_total found a new day, post_line raised, and the
\* snapshot and the series are those of the day before
C16_Witness ==
    /\ run.job = "today_total" /\ run.exc = "post_line"
    /\ disk.save # <<>>
    /\ disk.save[1].date # BodyOf(run).date
    /\ Len(disk.daily[1]) = 1
    /\ sent["today_total"] = 1

====
